---- MODULE Spec2Model ----
(***************************************************************************)
(* Fuzzy-logic irrigation controller (FuzzyLogic.ino + FuzzyDisplay).      *)
(*                                                                         *)
(* Numbers.  Every float of the sketch is kept in tenths: 5.0 degrees C is *)
(* 50, 100 % is 1000, the display's initial -999.9 is -9999.  A degree of  *)
(* membership is kept in 600ths (Full = 1.0), which is exact for every     *)
(* ramp of the configured trapezoids on values in tenths.  NAN is one      *)
(* value outside every range.  millis() is in milliseconds.                *)
(***************************************************************************)
EXTENDS Integers, Sequences, FiniteSets, TLC

(***************************************************************************)
(* Bounds of the model.                                                    *)
(***************************************************************************)
\* the loop is followed until millis() reaches MaxTime
MaxTime == 5750
\* number of addRule calls a set-up under test makes
MaxRules == 1
\* width of the millis() counter in bits (32 on the board)
TimeBits == 13

(***************************************************************************)
(* Program constants.                                                      *)
(***************************************************************************)
NaN == -100000
Unset == -200000
dhtReadInterval == 2000
soilReadInterval == 500
logicDisplayInterval == 1000
SetupDelay == 1000
AdcMax == 4095
InitialPrev == -9999
\* millis() is an unsigned counter of TimeBits bits
TimeModulus == 2 ^ TimeBits

isnan(x) == x = NaN

Abs(x) == IF x < 0 THEN -x ELSE x

Min2(x, y) == IF x <= y THEN x ELSE y

Max2(x, y) == IF x >= y THEN x ELSE y

(***************************************************************************)
(* Fuzzy sets: FuzzySet(a, b, c, d), breakpoints in tenths.                *)
(***************************************************************************)
FuzzySet(n, a, b, c, d) == [name |-> n, a |-> a, b |-> b, c |-> c, d |-> d]

NULL == FuzzySet("NULL", 0, 0, 0, 0)

lowTemp == FuzzySet("lowTemp", -50, -50, 100, 200)
mediumTemp == FuzzySet("mediumTemp", 100, 200, 200, 300)
highTemp == FuzzySet("highTemp", 200, 300, 450, 450)

lowHumidity == FuzzySet("lowHumidity", 0, 0, 300, 500)
mediumHumidity == FuzzySet("mediumHumidity", 300, 500, 500, 700)
highHumidity == FuzzySet("highHumidity", 500, 700, 1000, 1000)

drySoil == FuzzySet("drySoil", 0, 0, 200, 350)
moistSoil == FuzzySet("moistSoil", 200, 350, 400, 550)
wetSoil == FuzzySet("wetSoil", 400, 550, 1000, 1000)

noWater == FuzzySet("noWater", 0, 0, 0, 150)
lowWater == FuzzySet("lowWater", 0, 150, 150, 400)
moderateWater == FuzzySet("moderateWater", 150, 400, 400, 600)
fullWater == FuzzySet("fullWater", 400, 600, 1000, 1000)

\* setup(): the sets registered on each FuzzyInput / FuzzyOutput
temperatureInput == [index |-> 1, sets |-> {lowTemp, mediumTemp, highTemp}]
humidityInput == [index |-> 2, sets |-> {lowHumidity, mediumHumidity, highHumidity}]
soilMoistureInput == [index |-> 3, sets |-> {drySoil, moistSoil, wetSoil}]
pumpPowerOutput == [index |-> 1, sets |-> <<noWater, lowWater, moderateWater, fullWater>>]

FuzzyInputs == {temperatureInput, humidityInput, soilMoistureInput}

\* index of the FuzzyInput a set was added to
InputOf(set) == (CHOOSE i \in FuzzyInputs : set \in i.sets).index

(***************************************************************************)
(* The engine behind Fuzzy.h (trapezoid membership, min-AND, centroid).    *)
(***************************************************************************)
\* degree 1.0
Full == 600

\* degree of membership of crisp value x in a trapezoid
membership(set, x) ==
    IF x < set.a \/ x > set.d THEN 0
    ELSE IF x >= set.b /\ x <= set.c THEN Full
    ELSE IF x < set.b THEN (Full * (x - set.a)) \div (set.b - set.a)
    ELSE (Full * (set.d - x)) \div (set.d - set.c)

\* antecedent nodes built by joinSingle / joinWithAND
joinSingle(set) == [kind |-> "single", set |-> set]

joinWithAND(l, r) == [kind |-> "and", left |-> l, right |-> r]

\* an operand of joinWithAND is a FuzzySet or another antecedent
IsAntecedent(x) == "kind" \in DOMAIN x

RECURSIVE strength(_, _)
\* firing strength of an antecedent (or of a set used as operand) on inputs in
strength(node, in) ==
    IF ~IsAntecedent(node) THEN membership(node, in[InputOf(node)])
    ELSE IF node.kind = "single" THEN strength(node.set, in)
    ELSE Min2(strength(node.left, in), strength(node.right, in))

RECURSIVE Leaves(_)
\* the FuzzySets at the leaves of an antecedent
Leaves(node) ==
    IF ~IsAntecedent(node) THEN {node}
    ELSE IF node.kind = "single" THEN Leaves(node.set)
    ELSE Leaves(node.left) \cup Leaves(node.right)

\* largest element of a non-empty finite set of integers
MaxOf(S) == CHOOSE v \in S : \A w \in S : v >= w

\* the sequence f[1], ..., f[n] written out (f has domain 1..n)
Tabulated(f) == f \o << >>

\* distance between two sample points of the output universe (5.0)
OutputStep == 50

OutputSets == {pumpPowerOutput.sets[i] : i \in 1..Len(pumpPowerOutput.sets)}

\* the output universe: the union of [a, d] over the output's sets
UniverseLo == -MaxOf({-s.a : s \in OutputSets})

UniverseHi == MaxOf({s.d : s \in OutputSets})

\* the sample points are SamplePoint(1), ..., SamplePoint(Samples)
Samples == (UniverseHi - UniverseLo) \div OutputStep + 1

SamplePoint(k) == UniverseLo + (k - 1) * OutputStep

\* firing strengths of the registered rules, in registration order
RuleStrengths(rules, in) ==
    Tabulated([i \in 1..Len(rules) |-> strength(rules[i].antecedent, in)])

\* activation of the output sets, in registration order: the largest strength
\* among the rules targeting the set, 0 when none does
Activation(rules, in) ==
    LET fs == RuleStrengths(rules, in)
    IN  Tabulated([n \in 1..Len(pumpPowerOutput.sets) |->
            MaxOf({0} \cup {fs[i] : i \in {j \in 1..Len(rules) :
                                rules[j].consequent = pumpPowerOutput.sets[n]}})])

\* aggregated height at every sample point: union of the clipped output sets
Aggregate(rules, in) ==
    LET act == Activation(rules, in)
    IN  Tabulated([k \in 1..Samples |->
            MaxOf({Min2(membership(pumpPowerOutput.sets[n], SamplePoint(k)), act[n]) :
                      n \in 1..Len(pumpPowerOutput.sets)})])

\* sum of f[1..k]
RECURSIVE SumTo(_, _)
SumTo(f, k) == IF k < 1 THEN 0 ELSE f[k] + SumTo(f, k - 1)

\* the documented no-fire fallbacks: the held output or the universe midpoint
Fallbacks(held) == {held, (UniverseLo + UniverseHi) \div 2}

\* the crisp values defuzzify(1) may return: the centroid of the aggregated
\* set, or one of the fallbacks when no sample has a height above 0
defuzzify(rules, in, held) ==
    LET h == Aggregate(rules, in)
        den == SumTo(h, Samples)
        num == SumTo(Tabulated([k \in 1..Samples |-> SamplePoint(k) * h[k]]), Samples)
    IN  IF den = 0 THEN Fallbacks(held) ELSE {num \div den}

(***************************************************************************)
(* Rule set-up (FuzzyLogic.ino).  The engine's rule list, the static rule  *)
(* counter of addRule and the error line on Serial are one record here.    *)
(***************************************************************************)
NoRules == [rules |-> << >>, ruleNum |-> 1, serialError |-> FALSE]

FuzzyRule(num, antecedent, consequent) ==
    [num |-> num, antecedent |-> antecedent, consequent |-> consequent]

inputCount(tempSet, humidSet, soilSet) ==
    (IF tempSet # NULL THEN 1 ELSE 0) + (IF humidSet # NULL THEN 1 ELSE 0)
        + (IF soilSet # NULL THEN 1 ELSE 0)

\* mutant: the three-input case forgets the soil set
buildAntecedentNoSoil(tempSet, humidSet, soilSet) ==
    IF tempSet # NULL /\ humidSet # NULL THEN joinWithAND(tempSet, humidSet)
    ELSE IF tempSet # NULL /\ soilSet # NULL THEN joinWithAND(tempSet, soilSet)
    ELSE IF humidSet # NULL /\ soilSet # NULL THEN joinWithAND(humidSet, soilSet)
    ELSE IF tempSet # NULL THEN joinSingle(tempSet)
    ELSE IF humidSet # NULL THEN joinSingle(humidSet)
    ELSE joinSingle(soilSet)

\* mutant: the two-input case joins its first set alone
buildAntecedentPairAsSingle(tempSet, humidSet, soilSet) ==
    IF tempSet # NULL /\ humidSet # NULL /\ soilSet # NULL
    THEN joinWithAND(joinWithAND(tempSet, humidSet), soilSet)
    ELSE IF tempSet # NULL THEN joinSingle(tempSet)
    ELSE IF humidSet # NULL THEN joinSingle(humidSet)
    ELSE joinSingle(soilSet)

\* the antecedent addRule builds for 1, 2 or 3 non-NULL sets
buildAntecedent(tempSet, humidSet, soilSet) ==
    LET n == inputCount(tempSet, humidSet, soilSet)
    IN  IF n = 1
        THEN IF tempSet # NULL THEN joinSingle(tempSet)
             ELSE IF humidSet # NULL THEN joinSingle(humidSet)
             ELSE joinSingle(soilSet)
        ELSE IF n = 2
        THEN IF tempSet # NULL /\ humidSet # NULL THEN joinWithAND(tempSet, humidSet)
             ELSE IF tempSet # NULL /\ soilSet # NULL THEN joinWithAND(tempSet, soilSet)
             ELSE joinWithAND(humidSet, soilSet)
        ELSE joinWithAND(joinWithAND(tempSet, humidSet), soilSet)

\* mutant: a rule that leaves an input out is rejected like an empty one
addRuleNoDontCare(tempSet, humidSet, soilSet, outputSet, st) ==
    IF inputCount(tempSet, humidSet, soilSet) < 3
    THEN [st EXCEPT !.serialError = TRUE]
    ELSE [st EXCEPT
            !.rules = Append(@, FuzzyRule(st.ruleNum,
                                joinWithAND(joinWithAND(tempSet, humidSet), soilSet),
                                outputSet)),
            !.ruleNum = @ + 1]

addRule(tempSet, humidSet, soilSet, outputSet, st) ==
    IF inputCount(tempSet, humidSet, soilSet) = 0
    THEN [st EXCEPT !.serialError = TRUE]
    ELSE [st EXCEPT
            !.rules = Append(@, FuzzyRule(st.ruleNum,
                                buildAntecedent(tempSet, humidSet, soilSet), outputSet)),
            !.ruleNum = @ + 1]

setupFuzzyRules ==
    LET r1 == addRule(lowTemp, lowHumidity, drySoil, lowWater, NoRules)
        r2 == addRule(lowTemp, mediumHumidity, NULL, noWater, r1)
        r3 == addRule(lowTemp, highHumidity, NULL, noWater, r2)
        r4 == addRule(lowTemp, NULL, moistSoil, noWater, r3)
        r5 == addRule(NULL, NULL, wetSoil, noWater, r4)
        r6 == addRule(mediumTemp, lowHumidity, drySoil, fullWater, r5)
        r7 == addRule(mediumTemp, lowHumidity, moistSoil, moderateWater, r6)
        r8 == addRule(mediumTemp, mediumHumidity, drySoil, moderateWater, r7)
        r9 == addRule(mediumTemp, mediumHumidity, moistSoil, lowWater, r8)
        r10 == addRule(mediumTemp, highHumidity, drySoil, lowWater, r9)
        r11 == addRule(mediumTemp, highHumidity, moistSoil, noWater, r10)
        r12 == addRule(highTemp, NULL, drySoil, fullWater, r11)
        r13 == addRule(highTemp, highHumidity, moistSoil, lowWater, r12)
        r14 == addRule(highTemp, lowHumidity, moistSoil, moderateWater, r13)
    IN  addRule(highTemp, mediumHumidity, moistSoil, moderateWater, r14)

(***************************************************************************)
(* FuzzyDisplay: the values last drawn, and (drawn) the fields the latest  *)
(* loop iteration drew on the TFT.                                         *)
(***************************************************************************)
FuzzyDisplay ==
    [prevTemp |-> InitialPrev, prevHumid |-> InitialPrev, prevSoil |-> InitialPrev,
     prevPump |-> InitialPrev, drawn |-> {}]

\* isnan(v) || isnan(prev) || abs(v - prev) > threshold   (threshold in hundredths)
NeedsRedraw(v, prev, threshold) ==
    isnan(v) \/ isnan(prev) \/ 10 * Abs(v - prev) > threshold

updateValues(d, temp, humid, soil, pump) ==
    LET tempChanged == NeedsRedraw(temp, d.prevTemp, 5)
        humidChanged == NeedsRedraw(humid, d.prevHumid, 5)
        soilChanged == NeedsRedraw(soil, d.prevSoil, 5)
        pumpChanged == NeedsRedraw(pump, d.prevPump, 50)
        newPrevPump == IF pumpChanged THEN pump ELSE d.prevPump
    IN  [prevTemp |-> IF tempChanged THEN temp ELSE d.prevTemp,
         prevHumid |-> IF humidChanged THEN humid ELSE d.prevHumid,
         prevSoil |-> IF soilChanged THEN soil ELSE d.prevSoil,
         prevPump |-> newPrevPump,
         drawn |-> (IF tempChanged THEN {"temp"} ELSE {})
                   \cup (IF humidChanged THEN {"humid"} ELSE {})
                   \cup (IF soilChanged THEN {"soil"} ELSE {})
                   \cup (IF pumpChanged THEN {"pump"} ELSE {})
                   \cup (IF pumpChanged \/ newPrevPump = InitialPrev
                         THEN {"bar"} ELSE {})]

(***************************************************************************)
(* The sketch: globals, setup() and loop().                                *)
(***************************************************************************)
VARIABLES
    phase,                  \* "boot" before setup() has run, "run" after
    now,                    \* millis()
    lastDhtReadTime, lastSoilReadTime, lastLogicDisplayTime,
    currentTemperature, currentHumidity, currentSoilMoisture, currentPumpPower,
    rules, ruleNum,         \* the engine's rule list, addRule's static counter
    serialError,            \* addRule's error line has been printed
    input,                  \* the crisp value last given to setInput(i, .)
    myDisplay,
    ran,                    \* what the latest loop iteration executed
    lastCall,               \* arguments of the latest addRule call
    lastTempRead, lastHumidRead,   \* results of the latest DHT reads
    lastSoilRaw,            \* result of the latest analogRead of the soil pin
    validReads,             \* the sensors that have returned a valid value so far
    sinceDht, sinceSoil, sinceLogic \* ms passed since the task last ran
                                    \* (since setup() ended, before its first run)

vars == <<phase, now, lastDhtReadTime, lastSoilReadTime, lastLogicDisplayTime,
          currentTemperature, currentHumidity, currentSoilMoisture, currentPumpPower,
          rules, ruleNum, serialError, input, myDisplay, ran, lastCall,
          lastTempRead, lastHumidRead, lastSoilRaw, validReads,
          sinceDht, sinceSoil, sinceLogic>>

\* what the sensors and the scheduler can deliver
TempReads == {NaN, 50, 250, 500}
HumidReads == {NaN, 100}
SoilRaws == {410, 2252, 3686}
TickSteps == {250, 1000}

\* mutant: the subtraction is signed and does not wrap
ElapsedSigned(currentTime, lastTime) == currentTime - lastTime

\* unsigned subtraction currentTime - lastTime
Elapsed(currentTime, lastTime) == (currentTime - lastTime) % TimeModulus

\* mutant: the time of the last run is not subtracted
DueSinceBoot(currentTime, lastTime, interval) == currentTime >= interval

Due(currentTime, lastTime, interval) == Elapsed(currentTime, lastTime) >= interval

\* mutant: the read is stored whatever it is
StoreReadAlways(current, read) == read

\* if (!isnan(read)) current = read;
StoreRead(current, read) == IF ~isnan(read) THEN read ELSE current

\* mutant: the reading is not inverted (a larger raw value reads as wetter)
soilPercentNotInverted(raw) ==
    LET calculated == IF raw >= AdcMax THEN 1000
                      ELSE (raw * 1000) \div AdcMax
    IN  Max2(0, Min2(calculated, 1000))

\* raw ADC value to a percentage (tenths), clamped to 0..100
soilPercent(raw) ==
    LET calculated == IF raw >= AdcMax THEN 0
                      ELSE ((AdcMax - raw) * 1000) \div AdcMax
    IN  Max2(0, Min2(calculated, 1000))

\* mutant: one valid value is enough
AnyValid(t, h, s) == ~isnan(t) \/ ~isnan(h) \/ ~isnan(s)

AllValid(t, h, s) == ~isnan(t) /\ ~isnan(h) /\ ~isnan(s)

\* fuzzy->setInput(1, t); setInput(2, h); setInput(3, s)
setInputs(t, h, s) == <<t, h, s>>

\* mutant: the display is refreshed only after a cycle that ran the pipeline
refreshDisplayValidOnly(valid, d, t, h, s, p) ==
    IF valid THEN updateValues(d, t, h, s, p) ELSE [d EXCEPT !.drawn = {}]

\* Task 3 calls updateValues in both branches of its validity test
refreshDisplay(valid, d, t, h, s, p) ==
    IF valid THEN updateValues(d, t, h, s, p) ELSE updateValues(d, t, h, s, p)

Init ==
    /\ phase = "boot"
    /\ now = 0
    /\ lastDhtReadTime = 0 /\ lastSoilReadTime = 0 /\ lastLogicDisplayTime = 0
    /\ currentTemperature = NaN /\ currentHumidity = NaN
    /\ currentSoilMoisture = NaN /\ currentPumpPower = 0
    /\ rules = NoRules.rules /\ ruleNum = NoRules.ruleNum
    /\ serialError = NoRules.serialError
    /\ input = <<Unset, Unset, Unset>>
    /\ myDisplay = FuzzyDisplay
    /\ ran = {}
    /\ lastCall = << >>
    /\ lastTempRead = Unset /\ lastHumidRead = Unset /\ lastSoilRaw = Unset
    /\ validReads = {}
    /\ sinceDht = 0 /\ sinceSoil = 0 /\ sinceLogic = 0

\* the end of setup(): the three last-run times are set to millis()
startTimers(extra) ==
    /\ now' = (now + SetupDelay + extra) % TimeModulus
    /\ lastDhtReadTime' = now'
    /\ lastSoilReadTime' = now'
    /\ lastLogicDisplayTime' = now'
    /\ sinceDht' = 0 /\ sinceSoil' = 0 /\ sinceLogic' = 0
    /\ phase' = "run"

setup ==
    /\ phase = "boot"
    /\ rules = << >>
    /\ \E extra \in {0, 250} : startTimers(extra)
    /\ rules' = setupFuzzyRules.rules
    /\ ruleNum' = setupFuzzyRules.ruleNum
    /\ serialError' = setupFuzzyRules.serialError
    /\ lastCall' = <<highTemp, mediumHumidity, moistSoil, moderateWater>>
    /\ UNCHANGED <<currentTemperature, currentHumidity, currentSoilMoisture,
                   currentPumpPower, input, myDisplay, ran, lastTempRead, lastHumidRead,
                   lastSoilRaw, validReads>>

\* one iteration of loop(), d ms after the previous one; temp, humid and raw
\* are what the sensors return when the iteration reads them
loopBody(d, dhtDue, soilDue, logicDue, temp, humid, raw) ==
    \E t \in {IF dhtDue THEN StoreRead(currentTemperature, temp) ELSE currentTemperature},
       h \in {IF dhtDue THEN StoreRead(currentHumidity, humid) ELSE currentHumidity},
       s \in {IF soilDue THEN soilPercent(raw) ELSE currentSoilMoisture} :
        LET pipeline == logicDue /\ AllValid(t, h, s)
        IN  \E in \in {IF pipeline THEN setInputs(t, h, s) ELSE input} :
            \E p \in (IF pipeline THEN defuzzify(rules, in, currentPumpPower)
                      ELSE {currentPumpPower}) :
                /\ now' = (now + d) % TimeModulus
                /\ lastDhtReadTime' = IF dhtDue THEN now' ELSE lastDhtReadTime
                /\ lastSoilReadTime' = IF soilDue THEN now' ELSE lastSoilReadTime
                /\ lastLogicDisplayTime' = IF logicDue THEN now' ELSE lastLogicDisplayTime
                /\ lastTempRead' = IF dhtDue THEN temp ELSE lastTempRead
                /\ lastHumidRead' = IF dhtDue THEN humid ELSE lastHumidRead
                /\ lastSoilRaw' = IF soilDue THEN raw ELSE lastSoilRaw
                /\ validReads' = validReads
                      \cup (IF dhtDue /\ ~isnan(temp) THEN {"temp"} ELSE {})
                      \cup (IF dhtDue /\ ~isnan(humid) THEN {"humid"} ELSE {})
                      \cup (IF soilDue THEN {"soil"} ELSE {})
                /\ currentTemperature' = t
                /\ currentHumidity' = h
                /\ currentSoilMoisture' = s
                /\ input' = in
                /\ currentPumpPower' = p
                /\ myDisplay' = IF logicDue
                                THEN refreshDisplay(pipeline, myDisplay, t, h, s, p)
                                ELSE [myDisplay EXCEPT !.drawn = {}]
                /\ ran' = (IF dhtDue THEN {"dht"} ELSE {})
                          \cup (IF soilDue THEN {"soil"} ELSE {})
                          \cup (IF logicDue THEN {"logic"} ELSE {})
                          \cup (IF pipeline THEN {"pipeline"} ELSE {})
                /\ sinceDht' = IF dhtDue THEN 0 ELSE sinceDht + d
                /\ sinceSoil' = IF soilDue THEN 0 ELSE sinceSoil + d
                /\ sinceLogic' = IF logicDue THEN 0 ELSE sinceLogic + d
                /\ UNCHANGED <<phase, rules, ruleNum, serialError, lastCall>>

\* loop() entered d ms after the previous iteration, with sensors that
\* return values of temps, humids and raws
iteration(d, temps, humids, raws) ==
    LET currentTime == (now + d) % TimeModulus
        dhtDue == Due(currentTime, lastDhtReadTime, dhtReadInterval)
        soilDue == Due(currentTime, lastSoilReadTime, soilReadInterval)
        logicDue == Due(currentTime, lastLogicDisplayTime, logicDisplayInterval)
    IN  \E temp \in (IF dhtDue THEN temps ELSE {Unset}),
           humid \in (IF dhtDue THEN humids ELSE {Unset}),
           raw \in (IF soilDue THEN raws ELSE {0}) :
            loopBody(d, dhtDue, soilDue, logicDue, temp, humid, raw)

\* the iterations of loop() up to MaxTime, each entered d ms after the
\* previous one for some d in steps
loopWith(steps, temps, humids, raws) ==
    /\ phase = "run"
    /\ \E d \in steps :
        /\ now + d <= MaxTime
        /\ iteration(d, temps, humids, raws)

loop == loopWith(TickSteps, TempReads, HumidReads, SoilRaws)

Next == setup \/ loop

Spec == Init /\ [][Next]_vars

(***************************************************************************)
(* addRule on its own: a set-up that calls addRule with any arguments.     *)
(***************************************************************************)
callAddRule(tempSets, humidSets, soilSets, outputSets) ==
    /\ phase = "boot"
    /\ Len(rules) < MaxRules
    /\ \E tempSet \in tempSets, humidSet \in humidSets, soilSet \in soilSets,
          outputSet \in outputSets :
        LET st == addRule(tempSet, humidSet, soilSet, outputSet,
                          [rules |-> rules, ruleNum |-> ruleNum,
                           serialError |-> serialError])
        IN  /\ rules' = st.rules
            /\ ruleNum' = st.ruleNum
            /\ serialError' = st.serialError
            /\ lastCall' = <<tempSet, humidSet, soilSet, outputSet>>
    /\ UNCHANGED <<phase, now, lastDhtReadTime, lastSoilReadTime, lastLogicDisplayTime,
                   currentTemperature, currentHumidity, currentSoilMoisture,
                   currentPumpPower, input, myDisplay, ran, lastTempRead, lastHumidRead,
                   lastSoilRaw, validReads, sinceDht, sinceSoil, sinceLogic>>

callAnyRule ==
    callAddRule(temperatureInput.sets \cup {NULL}, humidityInput.sets \cup {NULL},
                soilMoistureInput.sets \cup {NULL}, OutputSets)

NextAddRule == callAnyRule

SpecAddRule == Init /\ [][NextAddRule]_vars

(***************************************************************************)
(* A set-up under test: setup() with the body of setupFuzzyRules replaced  *)
(* by a few addRule calls, followed by the loop.                           *)
(***************************************************************************)
callTestRule == callAddRule({NULL, highTemp}, {NULL}, {NULL, drySoil}, {fullWater})

finishSetup ==
    /\ phase = "boot"
    /\ lastCall # << >>
    /\ startTimers(0)
    /\ UNCHANGED <<currentTemperature, currentHumidity, currentSoilMoisture,
                   currentPumpPower, rules, ruleNum, serialError, input, myDisplay, ran,
                   lastCall, lastTempRead, lastHumidRead, lastSoilRaw, validReads>>

\* the loop on a hot day with dry soil, entered once a second
testLoop == loopWith({logicDisplayInterval}, {NaN, 500}, {NaN, 100}, {3686})

NextSetup == callTestRule \/ finishSetup \/ testLoop

SpecSetup == Init /\ [][NextSetup]_vars

(***************************************************************************)
(* The rule base on a grid of sensor values: setup(), then one iteration   *)
(* of loop() in which all three tasks are due.                             *)
(***************************************************************************)
TempGrid == {-100 + 50 * k : k \in 0..12}
HumidGrid == {100 * k : k \in 0..10}
\* raw ADC values that convert to 0 %, 5 %, ..., 100 %
RawGrid == {(AdcMax * (1000 - 50 * k)) \div 1000 : k \in 0..20}

sampleOnce ==
    /\ input[1] = Unset
    /\ loopWith({dhtReadInterval}, TempGrid, HumidGrid, RawGrid)

NextEngine == setup \/ sampleOnce

SpecEngine == Init /\ [][NextEngine]_vars

(***************************************************************************)
(* The soil sampler on every ADC value: setup(), then one iteration of     *)
(* loop() in which all three tasks are due and the DHT reads succeed.      *)
(***************************************************************************)
AdcRange == 0..AdcMax

soilOnce ==
    /\ lastSoilRaw = Unset
    /\ loopWith({dhtReadInterval}, {250}, {500}, AdcRange)

NextSoil == setup \/ soilOnce

SpecSoil == Init /\ [][NextSoil]_vars

(***************************************************************************)
(* The rule base on the cells of its input universes: setup(), then one    *)
(* iteration of loop() in which all three tasks are due.  The support of a *)
(* trapezoid is an interval between two breakpoints, so the set of rules   *)
(* that fire is the same on all points strictly between two neighbouring   *)
(* breakpoints of an input; the values below are every breakpoint, the     *)
(* values a tenth beside it, and one value between any two neighbours.     *)
(***************************************************************************)
Breakpoints(sets) == UNION {{x.a, x.b, x.c, x.d} : x \in sets}

\* the universe of an input: from its smallest to its largest breakpoint
InputUniverse(sets) ==
    LET bp == Breakpoints(sets)
    IN  (-MaxOf({-x : x \in bp}))..MaxOf(bp)

CoverPoints(sets) ==
    LET bp == Breakpoints(sets)
        beside == {x + e : x \in bp, e \in {-1, 0, 1}} \cap InputUniverse(sets)
        neighbours == {pr \in bp \X bp :
                          /\ pr[1] < pr[2]
                          /\ ~\E z \in bp : pr[1] < z /\ z < pr[2]}
        between == {(pr[1] + pr[2]) \div 2 : pr \in neighbours}
    IN  beside \cup between

CoverTemps == CoverPoints(temperatureInput.sets)
CoverHumids == CoverPoints(humidityInput.sets)
\* raw ADC values that convert to the soil percentages of CoverPoints
CoverRaws == {(AdcMax * (1000 - p)) \div 1000 : p \in CoverPoints(soilMoistureInput.sets)}

coverOnce ==
    /\ input[1] = Unset
    /\ loopWith({dhtReadInterval}, CoverTemps, CoverHumids, CoverRaws)

NextCover == setup \/ coverOnce

SpecCover == Init /\ [][NextCover]_vars

(***************************************************************************)
(* The loop across the wrap-around of millis(): setup(), then the loop for *)
(* ever, on sensors that always return the same values.                    *)
(***************************************************************************)
WrapSteps == {256, 1024}

wrapLoop ==
    /\ phase = "run"
    /\ \E d \in WrapSteps : iteration(d, {250}, {500}, {2252})

NextWrap == setup \/ wrapLoop

\* loop() is called again as soon as it returns: it runs infinitely often
\* (wrapLoop is enabled in every state after setup(), so this is its weak
\* fairness)
SpecWrap == Init /\ [][NextWrap]_vars /\ []<><<wrapLoop>>_vars

(***************************************************************************)
(* Properties of the loop.                                                 *)
(***************************************************************************)
AllSensors == {"temp", "humid", "soil"}

\* the step is a loop iteration that ran Task 3 (the logic cycle)
LogicCycle == now' # now /\ "logic" \in ran'

SomeNaN(t, h, s) == t = NaN \/ h = NaN \/ s = NaN

\* C1: the pipeline runs only when the three stored sensor values are all
\* non-NaN; no NaN is ever given to setInput; and when fuzzify/defuzzify have
\* run, all three inputs have been set, to the three stored values.
C1_PipelineOnlyOnValidInputs ==
    /\ \A i \in 1..3 : input[i] # NaN
    /\ (\E i \in 1..3 : input[i] = Unset) => (\A i \in 1..3 : input[i] = Unset)
    /\ "pipeline" \in ran =>
         /\ ~SomeNaN(currentTemperature, currentHumidity, currentSoilMoisture)
         /\ input = <<currentTemperature, currentHumidity, currentSoilMoisture>>
         /\ "logic" \in ran

\* the pipeline has run in an iteration whose DHT read failed
C1_Witness == "pipeline" \in ran /\ "dht" \in ran /\ lastTempRead = NaN

\* C2: a logic cycle that finds a NaN among the stored sensor values calls no
\* engine operation and leaves currentPumpPower as it was (0 before the first
\* cycle that ran the pipeline); the display is still refreshed (it shows the
\* NaN fields and the held pump power) and the loop goes on.
C2_InvalidCycleHoldsPump ==
    /\ [](input[1] = Unset => currentPumpPower = 0)
    /\ [][(LogicCycle /\ SomeNaN(currentTemperature', currentHumidity',
                                 currentSoilMoisture'))
          => /\ "pipeline" \notin ran'
             /\ input' = input
             /\ currentPumpPower' = currentPumpPower
             /\ myDisplay'.prevTemp = currentTemperature'
             /\ myDisplay'.prevHumid = currentHumidity'
             /\ myDisplay'.prevSoil = currentSoilMoisture'
             /\ 10 * Abs(myDisplay'.prevPump - currentPumpPower) <= 50
             /\ {f \in AllSensors : f \notin validReads'} \subseteq myDisplay'.drawn
             /\ phase' = "run"]_vars

\* a cycle was skipped for a missing humidity while the temperature was known
C2_Witness ==
    /\ "logic" \in ran /\ "pipeline" \notin ran
    /\ currentHumidity = NaN /\ currentTemperature # NaN
    /\ myDisplay.prevHumid = NaN /\ "humid" \in myDisplay.drawn

\* C5 as stated: a logic cycle whose latest DHT read returned NaN is skipped
\* (no pipeline, no new pump power), also after an earlier valid read.
C5_SkippedWhenLatestReadInvalid ==
    [][(LogicCycle /\ (lastTempRead' = NaN \/ lastHumidRead' = NaN))
          => ("pipeline" \notin ran' /\ currentPumpPower' = currentPumpPower)]_vars

\* C5 amended: a logic cycle is skipped exactly when some sensor has returned
\* no valid value on any read so far; a NaN read after a valid one leaves the
\* stored value alone, and the cycle runs the pipeline on that stored value.
C5_SkippedUntilFirstValidRead ==
    [][LogicCycle
          => /\ "pipeline" \notin ran' <=> validReads' # AllSensors
             /\ ("dht" \in ran' /\ lastTempRead' = NaN)
                    => currentTemperature' = currentTemperature
             /\ ("dht" \in ran' /\ lastHumidRead' = NaN)
                    => currentHumidity' = currentHumidity
             /\ "pipeline" \in ran'
                    => input' = <<currentTemperature', currentHumidity',
                                  currentSoilMoisture'>>]_vars

\* the pipeline ran on a stored temperature although the read just made failed
C5_Witness ==
    /\ "pipeline" \in ran /\ "dht" \in ran
    /\ lastTempRead = NaN /\ "temp" \in validReads
    /\ input[1] = currentTemperature

\* C9: a task runs only when its whole interval of millis() time has passed
\* since it last ran, and before its first run since setup() ended.
C9_TasksAtMostOncePerInterval ==
    [][now' # now =>
        LET passed == (now' - now) % TimeModulus
        IN  /\ "dht" \in ran' => sinceDht + passed >= dhtReadInterval
            /\ "soil" \in ran' => sinceSoil + passed >= soilReadInterval
            /\ "logic" \in ran' => sinceLogic + passed >= logicDisplayInterval]_vars

\* the three tasks have run in one iteration, not for the first time
C9_Witness ==
    /\ ran = {"dht", "soil", "logic", "pipeline"}
    /\ now >= SetupDelay + 2 * dhtReadInterval

\* C10 as stated: updateValues draws a field only if the value passed differs
\* from the value last drawn, draws nothing when the four values equal the
\* values last drawn, and keeps the stored value of a field it does not draw.
C10_OnlyChangedValuesRedrawn ==
    [][LogicCycle =>
        LET d == myDisplay
            e == myDisplay'
        IN  /\ "temp" \in e.drawn => currentTemperature' # d.prevTemp
            /\ "humid" \in e.drawn => currentHumidity' # d.prevHumid
            /\ "soil" \in e.drawn => currentSoilMoisture' # d.prevSoil
            /\ "pump" \in e.drawn => currentPumpPower' # d.prevPump
            /\ <<currentTemperature', currentHumidity', currentSoilMoisture',
                 currentPumpPower'>> = <<d.prevTemp, d.prevHumid, d.prevSoil, d.prevPump>>
                  => e.drawn = {}
            /\ "temp" \notin e.drawn => e.prevTemp = d.prevTemp
            /\ "humid" \notin e.drawn => e.prevHumid = d.prevHumid
            /\ "soil" \notin e.drawn => e.prevSoil = d.prevSoil
            /\ "pump" \notin e.drawn => e.prevPump = d.prevPump]_vars

\* C11: for every raw ADC reading in 0..4095 Task 2 stores a percentage in
\* [0, 100]; raw 4095 gives 0 and raw 0 gives 100; the next larger raw reading
\* never gives a larger percentage and the next smaller one never a smaller
\* percentage; the value given to setInput(3, .) is that percentage.
C11_SoilPercentInRange ==
    lastSoilRaw # Unset =>
        /\ lastSoilRaw \in AdcRange
        /\ currentSoilMoisture = soilPercent(lastSoilRaw)
        /\ currentSoilMoisture \in 0..1000
        /\ lastSoilRaw = AdcMax => currentSoilMoisture = 0
        /\ lastSoilRaw = 0 => currentSoilMoisture = 1000
        /\ lastSoilRaw < AdcMax => soilPercent(lastSoilRaw + 1) <= currentSoilMoisture
        /\ lastSoilRaw > 0 => soilPercent(lastSoilRaw - 1) >= currentSoilMoisture
        /\ "pipeline" \in ran => input[3] = currentSoilMoisture /\ input[3] \in 0..1000

\* the driest reading has been converted and given to the engine
C11_Witness ==
    /\ lastSoilRaw = AdcMax /\ currentSoilMoisture = 0
    /\ "pipeline" \in ran /\ input[3] = 0

\* C13: a stored sensor value that is not NaN never becomes NaN again,
\* whatever the later reads return (a NaN DHT read leaves the stored value as
\* it was); once a logic cycle has run the pipeline, every later logic cycle
\* runs it too.
C13_ValidValuesStay ==
    [][/\ currentTemperature # NaN => currentTemperature' # NaN
       /\ currentHumidity # NaN => currentHumidity' # NaN
       /\ currentSoilMoisture # NaN => currentSoilMoisture' # NaN
       /\ (now' # now /\ "dht" \in ran' /\ lastTempRead' = NaN)
              => currentTemperature' = currentTemperature
       /\ (now' # now /\ "dht" \in ran' /\ lastHumidRead' = NaN)
              => currentHumidity' = currentHumidity
       /\ (LogicCycle /\ input[1] # Unset) => "pipeline" \in ran']_vars

\* the pipeline has run again after a later DHT read in which both the
\* temperature and the humidity failed
C13_Witness ==
    /\ now >= SetupDelay + 2 * dhtReadInterval
    /\ ran = {"dht", "soil", "logic", "pipeline"}
    /\ lastTempRead = NaN /\ lastHumidRead = NaN
    /\ currentTemperature # NaN /\ currentHumidity # NaN

\* C14: with millis() wrapping modulo 2^TimeBits, the unsigned difference
\* currentTime - lastTime of each due test is the time that really passed
\* since the task last ran, also when the counter has wrapped in between; a
\* task runs in exactly the iterations in which its whole interval has
\* passed (never early, never skipped), and each task keeps running for ever.
C14_DueTestSurvivesWrap ==
    /\ [][(phase = "run" /\ now' # now) =>
            LET passed == (now' - now) % TimeModulus
            IN  /\ Elapsed(now', lastDhtReadTime) = sinceDht + passed
                /\ Elapsed(now', lastSoilReadTime) = sinceSoil + passed
                /\ Elapsed(now', lastLogicDisplayTime) = sinceLogic + passed
                /\ "dht" \in ran' <=> sinceDht + passed >= dhtReadInterval
                /\ "soil" \in ran' <=> sinceSoil + passed >= soilReadInterval
                /\ "logic" \in ran' <=> sinceLogic + passed >= logicDisplayInterval]_vars
    /\ []<>("dht" \in ran /\ sinceDht = 0)
    /\ []<>("soil" \in ran /\ sinceSoil = 0)
    /\ []<>("logic" \in ran /\ sinceLogic = 0)

\* the DHT task has run in the first second after a wrap-around, its
\* previous run being before the wrap-around
C14_Witness ==
    /\ phase = "run" /\ now < SetupDelay
    /\ "dht" \in ran /\ lastDhtReadTime = now /\ sinceDht = 0
    /\ now < dhtReadInterval

(***************************************************************************)
(* Properties of the rule set-up and of the rule base.                     *)
(***************************************************************************)
\* smallest element of a non-empty finite set of integers
MinOf(S) == CHOOSE v \in S : \A w \in S : v <= w

\* the step is an addRule call made during set-up
AddRuleCall ==
    /\ phase = "boot" /\ phase' = "boot"
    /\ lastCall' # << >>
    /\ (lastCall' # lastCall \/ rules' # rules \/ serialError' # serialError)

\* C3 as stated: addRule with three NULL input sets reports the error, adds
\* no rule, and after it no loop iteration runs fuzzify/defuzzify.
C3_EmptyAntecedentStopsEngine ==
    /\ [][(AddRuleCall /\ \A i \in 1..3 : lastCall'[i] = NULL)
            => (serialError' /\ rules' = rules)]_vars
    /\ [](serialError => "pipeline" \notin ran)

\* crisp inputs on which the strength of a new rule is compared
StrengthInputs ==
    {<<t, h, s>> : t \in {50, 150, 250, 500}, h \in {100, 400}, s \in {300, 500}}

\* C6: addRule with at least one non-NULL input set adds exactly one rule; the
\* leaves of its antecedent are exactly the non-NULL sets (one: joinSingle;
\* two: one AND of the two sets; three: AND(AND(temp, humid), soil)); its
\* consequent is outputSet; its strength is the minimum of the memberships of
\* the non-NULL sets.
C6_AddRuleBuildsExactLeaves ==
    [][(AddRuleCall /\ \E i \in 1..3 : lastCall'[i] # NULL) =>
        LET given == {lastCall'[i] : i \in 1..3} \ {NULL}
            rule == rules'[Len(rules')]
            ante == rule.antecedent
        IN  /\ Len(rules') = Len(rules) + 1
            /\ SubSeq(rules', 1, Len(rules)) = rules
            /\ serialError' = serialError
            /\ Leaves(ante) = given
            /\ Cardinality(given) = 1 =>
                 ante = joinSingle(CHOOSE x \in given : TRUE)
            /\ Cardinality(given) = 2 =>
                 /\ ante.kind = "and"
                 /\ ~IsAntecedent(ante.left) /\ ~IsAntecedent(ante.right)
                 /\ ante.left # ante.right
            /\ Cardinality(given) = 3 =>
                 ante = joinWithAND(joinWithAND(lastCall'[1], lastCall'[2]), lastCall'[3])
            /\ rule.consequent = lastCall'[4]
            /\ \A in \in StrengthInputs :
                 strength(ante, in)
                    = MinOf({membership(x, in[InputOf(x)]) : x \in given})]_vars

\* a rule with a don't-care humidity has been added
C6_Witness ==
    /\ phase = "boot" /\ Len(rules) = 1
    /\ lastCall = <<lowTemp, NULL, moistSoil, noWater>>
    /\ Leaves(rules[1].antecedent) = {lowTemp, moistSoil}
    /\ rules[1].consequent = noWater

\* C7: on a soil moisture in [55, 100] the rule wetSoil -> noWater fires with
\* strength 1, every rule that fires at all has consequent noWater, and the
\* aggregated output lies within the noWater set, whatever the temperature
\* and the humidity.
C7_WetSoilGivesNoWater ==
    ("pipeline" \in ran /\ currentSoilMoisture \in 550..1000) =>
        LET fs == RuleStrengths(rules, input)
            agg == Aggregate(rules, input)
        IN  /\ \E i \in 1..Len(rules) :
                 /\ rules[i].antecedent = joinSingle(wetSoil)
                 /\ rules[i].consequent = noWater
                 /\ fs[i] = Full
            /\ \A i \in 1..Len(rules) : fs[i] > 0 => rules[i].consequent = noWater
            /\ \A k \in 1..Samples : agg[k] <= membership(noWater, SamplePoint(k))
            /\ currentPumpPower \in noWater.a..noWater.d

\* the pipeline has run on 35 degrees and 90 % soil moisture
C7_Witness ==
    /\ "pipeline" \in ran
    /\ currentTemperature = 350 /\ currentSoilMoisture = 900
    /\ input = <<350, currentHumidity, 900>>

\* C8: on the plateaus of lowTemp, lowHumidity and drySoil the rule
\* lowTemp AND lowHumidity AND drySoil -> lowWater fires with strength 1, no
\* other rule fires, and the aggregated output is the unclipped lowWater set.
C8_LowDryGivesLowWaterOnly ==
    ( /\ "pipeline" \in ran
      /\ currentTemperature \in -50..100
      /\ currentHumidity \in 0..300
      /\ currentSoilMoisture \in 0..200 ) =>
        LET fs == RuleStrengths(rules, input)
            agg == Aggregate(rules, input)
        IN  /\ \E i \in 1..Len(rules) :
                 /\ Leaves(rules[i].antecedent) = {lowTemp, lowHumidity, drySoil}
                 /\ rules[i].consequent = lowWater
                 /\ fs[i] = Full
                 /\ \A j \in 1..Len(rules) : j # i => fs[j] = 0
            /\ \A k \in 1..Samples : agg[k] = membership(lowWater, SamplePoint(k))

\* the pipeline has run on 5 degrees, 10 % humidity and 10 % soil moisture
C8_Witness ==
    /\ "pipeline" \in ran
    /\ input = <<50, 100, 100>>
    /\ currentTemperature = 50 /\ currentHumidity = 100 /\ currentSoilMoisture = 100

\* C12: on every temperature in [-5, 45], humidity in [0, 100] and soil
\* moisture in [0, 100] at least one registered rule fires with a strength
\* above 0, that strength being the minimum of the memberships of the rule's
\* leaves; the aggregated output then has a sample above 0, so the pump
\* output is not in its "no rule fired" state.
C12_RuleBaseComplete ==
    ( /\ "pipeline" \in ran
      /\ input[1] \in InputUniverse(temperatureInput.sets)
      /\ input[2] \in InputUniverse(humidityInput.sets)
      /\ input[3] \in InputUniverse(soilMoistureInput.sets) ) =>
        LET fs == RuleStrengths(rules, input)
            agg == Aggregate(rules, input)
        IN  /\ \E i \in 1..Len(rules) :
                 /\ fs[i] > 0
                 /\ fs[i] = MinOf({membership(x, input[InputOf(x)]) :
                                      x \in Leaves(rules[i].antecedent)})
            /\ \E k \in 1..Samples : agg[k] > 0
            /\ currentPumpPower \in UniverseLo..UniverseHi

\* the pipeline has run on 20 degrees, 50 % humidity and 40 % soil moisture,
\* where each input lies in one set only
C12_Witness ==
    /\ "pipeline" \in ran
    /\ input = <<200, 500, 400>>
    /\ membership(lowTemp, 200) = 0 /\ membership(highTemp, 200) = 0
    /\ membership(wetSoil, 400) = 0 /\ membership(drySoil, 400) = 0

====
